---- MODULE Spec2Model ----
(***************************************************************************)
(* Function-call routing layer of the voice assistant (router.py, tools.py)*)
(* and the request handlers that drive it (main.py).                       *)
(*                                                                         *)
(* Text is a sequence of one-character strings.  The character U+0060      *)
(* cannot be written inside a TLA+ string, so it is the element BT.  The   *)
(* input alphabet is ASCII without the backslash; the table rows of        *)
(* text_to_math_expr whose keys are CJK characters can match no text over  *)
(* this alphabet and are left out.                                         *)
(***************************************************************************)
EXTENDS Integers, Sequences, FiniteSets, TLC

VARIABLES
    pc,          \* position of the routing sequence of main.py lines 39-44
    llm_output,  \* the text _extract_json_call was given
    user_text,   \* argument of maybe_call_by_rules
    obj,         \* what _extract_json_call returned
    routed,      \* what try_route_llm_function_call returned
    tool_hit,    \* what maybe_call_by_rules returned
    calls,       \* tool invocations made, in order: [name, arg]
    results,     \* the ToolResult each invocation returned
    raised,      \* an exception left the router
    meta,        \* how llm_output was put together (read by properties only)
    loop,        \* request whose coroutine holds the event-loop thread (0: none)
    rpc,         \* per request: position in chat_endpoint
    rtool,       \* per request: blocked inside a tool's network call
    heap,        \* the list objects conv_manager.history has been bound to
    cur,         \* index in heap of the list self.history is bound to now
    hpc,         \* per worker thread: position in generate_response
    hex,         \* per worker thread: the exchange it serves (0: none)
    href,        \* per worker thread: the list object it loaded for append
    hslice,      \* per worker thread: the value of self.history[-10:]
    hseen,       \* per worker thread: the history its prompt was built from
    appended,    \* the exchanges in the order of their append calls
    started,     \* number of generate_response calls so far
    math_pc,     \* position of the caller of text_to_math_expr
    math_q,      \* argument q of text_to_math_expr
    math_s       \* what text_to_math_expr returned for it

vars == <<pc, llm_output, user_text, obj, routed, tool_hit, calls, results,
          raised, meta, loop, rpc, rtool, heap, cur, hpc, hex, href, hslice,
          hseen, appended, started, math_pc, math_q, math_s>>

histVars == <<heap, cur, hpc, hex, href, hslice, hseen, appended, started>>
mathVars == <<math_pc, math_q, math_s>>

routeVars == <<pc, llm_output, user_text, obj, routed, tool_hit, calls,
               results, raised, meta>>
serverVars == <<loop, rpc, rtool>>

-----------------------------------------------------------------------------
(* Characters and strings                                                  *)

Chars(s) == [i \in 1..Len(s) |-> SubSeq(s, i, i)]

BT == "<backtick>"
DQ == "\""

LowerLetters == Chars("abcdefghijklmnopqrstuvwxyz")
UpperLetters == Chars("ABCDEFGHIJKLMNOPQRSTUVWXYZ")
DigitChars == Chars("0123456789")

SetOf(seq) == {seq[i] : i \in 1..Len(seq)}

LetterSet == SetOf(LowerLetters) \cup SetOf(UpperLetters)
DigitSet == SetOf(DigitChars)
SpaceSet == {" ", "\n", "\t"}

IsSpace(c) == c \in SpaceSet
IsDigit(c) == c \in DigitSet
\* \w of the re module
IsWord(c) == c \in LetterSet \/ c \in DigitSet \/ c = "_"

\* str.lower on one character
LowerChar(c) ==
    IF c \in SetOf(UpperLetters)
    THEN LowerLetters[CHOOSE i \in 1..26 : UpperLetters[i] = c]
    ELSE c

Lower(s) == SubSeq([i \in 1..Len(s) |-> LowerChar(s[i])], 1, Len(s))

\* s[i:i+len(k)] == k
MatchAt(s, i, k) ==
    /\ i >= 1
    /\ i + Len(k) - 1 <= Len(s)
    /\ \A j \in 1..Len(k) : s[i + j - 1] = k[j]

\* str.find(k, from): first index >= from where k occurs, 0 when none
Find(s, k, from) ==
    LET hits == {i \in from..(Len(s) - Len(k) + 1) : MatchAt(s, i, k)}
    IN IF hits = {} THEN 0 ELSE CHOOSE i \in hits : \A j \in hits : i <= j

\* s[i:i+len(k)].lower() == k
MatchAtLower(s, i, k) ==
    /\ i >= 1
    /\ i + Len(k) - 1 <= Len(s)
    /\ \A j \in 1..Len(k) : LowerChar(s[i + j - 1]) = k[j]

\* k in s
Contains(s, k) == Find(s, k, 1) # 0

\* str.strip()
Strip(s) ==
    LET solid == {i \in 1..Len(s) : ~IsSpace(s[i])}
    IN IF solid = {} THEN <<>>
       ELSE SubSeq(s, CHOOSE i \in solid : \A j \in solid : i <= j,
                      CHOOSE i \in solid : \A j \in solid : i >= j)

\* the regex assertion \b between s[p-1] and s[p]
WordBoundary(s, p) ==
    LET before == p > 1 /\ p - 1 <= Len(s) /\ IsWord(s[p - 1])
        after == p >= 1 /\ p <= Len(s) /\ IsWord(s[p])
    IN before # after

\* first index >= from where the pattern \bk\b matches, 0 when none
FindWord(s, k, from) ==
    LET hits == {i \in from..(Len(s) - Len(k) + 1) :
                    /\ MatchAt(s, i, k)
                    /\ WordBoundary(s, i)
                    /\ WordBoundary(s, i + Len(k))}
    IN IF hits = {} THEN 0 ELSE CHOOSE i \in hits : \A j \in hits : i <= j

\* re.sub(r"\b" + re.escape(k) + r"\b", v, s), scanning from index i
RECURSIVE SubWordFrom(_, _, _, _)
SubWordFrom(s, i, k, v) ==
    LET m == FindWord(s, k, i)
    IN IF m = 0 THEN SubSeq(s, i, Len(s))
       ELSE SubSeq(s, i, m - 1) \o v \o SubWordFrom(s, m + Len(k), k, v)

SubWord(s, k, v) == SubWordFrom(s, 1, k, v)

\* the loops "for k, v in table: s = re.sub(...)"
RECURSIVE ApplyTable(_, _)
ApplyTable(s, table) ==
    IF table = <<>> THEN s
    ELSE LET r == SubWord(s, Head(table)[1], Head(table)[2])
         IN IF Len(r) >= 0 THEN ApplyTable(r, Tail(table)) ELSE r

\* re.sub(c{2,}, c, s): runs of two or more c become one c
CollapseRuns(s, c) ==
    LET tagged == [i \in 1..Len(s) |->
                      <<s[i], s[i] = c /\ i > 1 /\ s[i - 1] = c>>]
        kept == SelectSeq(tagged, LAMBDA p : ~p[2])
    IN SubSeq([i \in 1..Len(kept) |-> kept[i][1]], 1, Len(kept))

\* str.replace(k, v), scanning from index i
RECURSIVE ReplaceFrom(_, _, _, _)
ReplaceFrom(s, i, k, v) ==
    LET m == Find(s, k, i)
    IN IF m = 0 THEN SubSeq(s, i, Len(s))
       ELSE SubSeq(s, i, m - 1) \o v \o ReplaceFrom(s, m + Len(k), k, v)

ReplaceAll(s, k, v) == ReplaceFrom(s, 1, k, v)

-----------------------------------------------------------------------------
(* text_to_math_expr                                                       *)

replacements == <<
    <<Chars("open parenthesis"), Chars("(")>>,
    <<Chars("close parenthesis"), Chars(")")>>,
    <<Chars("open bracket"), Chars("(")>>,
    <<Chars("close bracket"), Chars(")")>>,
    <<Chars("to the power of"), Chars("**")>>,
    <<Chars("raised to the power of"), Chars("**")>>,
    <<Chars("multiplied by"), Chars("*")>>,
    <<Chars("times"), Chars("*")>>,
    <<Chars("divide by"), Chars("/")>>,
    <<Chars("divided by"), Chars("/")>>,
    <<Chars("all over"), Chars("/")>>,
    <<Chars("over"), Chars("/")>> >>

single_words == <<
    <<Chars("plus"), Chars("+")>>,
    <<Chars("minus"), Chars("-")>>,
    <<Chars("mod"), Chars("%")>>,
    <<Chars("modulo"), Chars("%")>>,
    <<Chars("squared"), Chars("**2")>>,
    <<Chars("cubed"), Chars("**3")>> >>

noise == <<
    <<Chars("what is"), Chars(" ")>>,
    <<Chars("what's"), Chars(" ")>>,
    <<Chars("whats"), Chars(" ")>>,
    <<Chars("result"), Chars(" ")>>,
    <<Chars("equals"), Chars(" ")>>,
    <<Chars("calculate"), Chars(" ")>>,
    <<Chars("compute"), Chars(" ")>> >>

\* the character class [0-9\.\+\-\*\/\%\(\)\s]
KeptSet == DigitSet \cup SetOf(Chars(".+-*/%()")) \cup SpaceSet

KeepOnly(s) ==
    SubSeq([i \in 1..Len(s) |-> IF s[i] \in KeptSet THEN s[i] ELSE " "], 1, Len(s))

RemoveSpaces(s) == SelectSeq(s, LAMBDA c : ~IsSpace(c))

text_to_math_expr(q) ==
    LET s0 == Lower(q)
        s1 == ApplyTable(s0, replacements)
        s2 == ApplyTable(s1, single_words)
        s3 == ApplyTable(s2, noise)
        s4 == KeepOnly(s3)
        s5 == RemoveSpaces(s4)
        s6 == CollapseRuns(s5, "+")
        s7 == CollapseRuns(s6, "-")
        s8 == CollapseRuns(s7, "/")
    IN ReplaceAll(s8, Chars("**+"), Chars("**"))

-----------------------------------------------------------------------------
(* tools.calculate: sympify, N, float and the two output formats, on       *)
(* rationals.  A power with a fractional exponent, or a value beyond       *)
(* CalcCap, is answered by sympy with digits that are not computed here:   *)
(* Inexact stands for that reply.                                          *)

CalcCap == 100000
PowCap == 17

Abs(x) == IF x < 0 THEN -x ELSE x

RECURSIVE Gcd(_, _)
Gcd(a, b) == IF b = 0 THEN a ELSE Gcd(b, a % b)

\* the reduced fraction n/d, d # 0
Rat(n, d) ==
    LET g == Gcd(Abs(n), Abs(d))
        sg == IF d < 0 THEN -1 ELSE 1
    IN [st |-> "ok", n |-> sg * (n \div g), d |-> sg * (d \div g)]

CalcErr == [st |-> "err", n |-> 0, d |-> 1]
CalcInexact == [st |-> "inexact", n |-> 0, d |-> 1]

Capped(r) ==
    IF r.st = "ok" /\ (Abs(r.n) > CalcCap \/ r.d > CalcCap) THEN CalcInexact ELSE r

\* floor(n/d) for d > 0
FloorDiv(n, d) == n \div d

RECURSIVE IntPow(_, _)
IntPow(b, e) ==
    IF e = 0 THEN 1
    ELSE LET r == IntPow(b, e - 1)
         IN IF Abs(r) > CalcCap THEN r ELSE r * b

\* a ** b
RatPow(a, b) ==
    IF b.d # 1 THEN
        (IF a.d = 1 /\ a.n \in {0, 1} THEN a ELSE CalcInexact)
    ELSE IF b.n = 0 THEN Rat(1, 1)
    ELSE IF a.n = 0 THEN (IF b.n < 0 THEN CalcErr ELSE a)
    ELSE IF Abs(a.n) = 1 /\ a.d = 1 THEN
        (IF a.n = 1 \/ b.n % 2 = 0 THEN Rat(1, 1) ELSE Rat(-1, 1))
    ELSE IF Abs(b.n) > PowCap THEN CalcInexact
    ELSE LET pn == IntPow(a.n, Abs(b.n))
             pd == IntPow(a.d, Abs(b.n))
         IN IF Abs(pn) > CalcCap \/ pd > CalcCap THEN CalcInexact
            ELSE IF b.n > 0 THEN Rat(pn, pd) ELSE Rat(pd, pn)

\* a op b on sympy numbers
BinOp(op, a, b) ==
    IF a.st = "err" \/ b.st = "err" THEN CalcErr
    ELSE IF b.st = "ok" /\ b.n = 0 /\ op \in {"/", "//", "%"} THEN CalcErr
    ELSE IF a.st = "inexact" \/ b.st = "inexact" THEN CalcInexact
    ELSE Capped(
        CASE op = "+" -> Rat(a.n * b.d + b.n * a.d, a.d * b.d)
          [] op = "-" -> Rat(a.n * b.d - b.n * a.d, a.d * b.d)
          [] op = "*" -> Rat(a.n * b.n, a.d * b.d)
          [] op = "/" -> IF b.n = 0 THEN CalcErr ELSE Rat(a.n * b.d, a.d * b.n)
          [] op = "//" -> IF b.n = 0 THEN CalcErr
                          ELSE LET q == Rat(a.n * b.d, a.d * b.n)
                               IN Rat(FloorDiv(q.n, q.d), 1)
          [] op = "%" -> IF b.n = 0 THEN CalcErr
                         ELSE LET q == Rat(a.n * b.d, a.d * b.n)
                                  f == FloorDiv(q.n, q.d)
                              IN Rat(a.n * b.d - f * b.n * a.d, a.d * b.d)
          [] op = "**" -> RatPow(a, b)
          [] OTHER -> CalcErr)

Neg(a) == IF a.st = "ok" THEN Rat(-a.n, a.d) ELSE a

\* value of a digit character
DigitVal(c) == (CHOOSE i \in 1..10 : DigitChars[i] = c) - 1

RECURSIVE DigitsVal(_)
DigitsVal(ds) ==
    IF ds = <<>> THEN 0
    ELSE IF Len(ds) > 6 THEN CalcCap + 1
    ELSE 10 * DigitsVal(SubSeq(ds, 1, Len(ds) - 1)) + DigitVal(ds[Len(ds)])

RECURSIVE Pow10(_)
Pow10(k) == IF k = 0 THEN 1 ELSE 10 * Pow10(k - 1)

\* str(int)
RECURSIVE NatStr(_)
NatStr(n) ==
    IF n < 10 THEN <<DigitChars[n + 1]>>
    ELSE NatStr(n \div 10) \o <<DigitChars[(n % 10) + 1]>>

IntStr(n) == IF n < 0 THEN <<"-">> \o NatStr(-n) ELSE NatStr(n)

\* a Python number literal made of digits and dots; st = "err" when the run
\* is no single literal
NumberToken(run) ==
    LET dots == {i \in 1..Len(run) : run[i] = "."}
        digits == SelectSeq(run, IsDigit)
    IN IF Cardinality(dots) > 1 \/ digits = <<>> THEN CalcErr
       ELSE IF dots = {} THEN
           (IF Len(run) > 1 /\ run[1] = "0" /\ \E i \in 1..Len(run) : run[i] # "0"
            THEN CalcErr
            ELSE Capped(Rat(DigitsVal(run), 1)))
       ELSE LET p == CHOOSE i \in dots : TRUE
            IN IF Len(run) - p > 4 THEN CalcInexact
               ELSE Capped(Rat(DigitsVal(digits), Pow10(Len(run) - p)))

IsNumChar(c) == IsDigit(c) \/ c = "."

\* end of the run of number characters that starts at i
NumEnd(s, i) ==
    LET stops == {j \in i..Len(s) : ~IsNumChar(s[j])}
    IN IF stops = {} THEN Len(s)
       ELSE (CHOOSE j \in stops : \A k \in stops : j <= k) - 1

OpChars == SetOf(Chars("+-*/%()^"))

\* the tokens of an expression from index i on: [k, s, v]; k = "bad" for a
\* character that is no part of an arithmetic expression
RECURSIVE Tokens(_, _)
Tokens(s, i) ==
    IF i > Len(s) THEN <<>>
    ELSE IF IsSpace(s[i]) THEN Tokens(s, i + 1)
    ELSE IF IsNumChar(s[i]) THEN
        LET e == NumEnd(s, i)
            v == NumberToken(SubSeq(s, i, e))
        IN <<[k |-> IF v.st = "err" THEN "bad" ELSE "num", s |-> "", v |-> v]>>
           \o Tokens(s, e + 1)
    ELSE IF MatchAt(s, i, Chars("**")) THEN
        <<[k |-> "op", s |-> "**", v |-> CalcErr]>> \o Tokens(s, i + 2)
    ELSE IF MatchAt(s, i, Chars("//")) THEN
        <<[k |-> "op", s |-> "//", v |-> CalcErr]>> \o Tokens(s, i + 2)
    ELSE IF s[i] = "^" THEN
        <<[k |-> "op", s |-> "**", v |-> CalcErr]>> \o Tokens(s, i + 1)
    ELSE IF s[i] \in OpChars THEN
        <<[k |-> "op", s |-> s[i], v |-> CalcErr]>> \o Tokens(s, i + 1)
    ELSE <<[k |-> "bad", s |-> "", v |-> CalcErr]>>

IsOp(t, i, ops) == i <= Len(t) /\ t[i].k = "op" /\ t[i].s \in ops

\* Python's expression grammar; each parser returns [v, pos]: the value (st =
\* "err" on a syntax or evaluation error) and the index after what it read
PFail == [v |-> CalcErr, pos |-> 0]

\* Parse(rule, t, i, acc) reads one rule of the grammar at token i; acc is the
\* left operand read so far, for the rules that loop
RECURSIVE Parse(_, _, _, _)
Parse(rule, t, i, acc) ==
    CASE rule = "atom" ->
           IF i > Len(t) THEN PFail
           ELSE IF t[i].k = "num" THEN
               \* a number followed by "(" is a call of a number: TypeError
               (IF IsOp(t, i + 1, {"("}) THEN PFail ELSE [v |-> t[i].v, pos |-> i + 1])
           ELSE IF IsOp(t, i, {"("}) THEN
               LET r == Parse("expr", t, i + 1, CalcErr)
               IN IF r.v.st = "err" \/ ~IsOp(t, r.pos, {")"}) THEN PFail
                  ELSE IF IsOp(t, r.pos + 1, {"("}) THEN PFail
                  ELSE [v |-> r.v, pos |-> r.pos + 1]
           ELSE PFail
      [] rule = "power" ->
           LET a == Parse("atom", t, i, CalcErr)
           IN IF a.v.st = "err" THEN PFail
              ELSE IF IsOp(t, a.pos, {"**"}) THEN
                  LET e == Parse("factor", t, a.pos + 1, CalcErr)
                  IN IF e.v.st = "err" THEN PFail
                     ELSE [v |-> BinOp("**", a.v, e.v), pos |-> e.pos]
              ELSE a
      [] rule = "factor" ->
           IF IsOp(t, i, {"+", "-"}) THEN
               LET r == Parse("factor", t, i + 1, CalcErr)
               IN IF r.v.st = "err" THEN PFail
                  ELSE [v |-> IF t[i].s = "-" THEN Neg(r.v) ELSE r.v, pos |-> r.pos]
           ELSE Parse("power", t, i, CalcErr)
      [] rule = "term_rest" ->
           IF acc.st = "err" THEN [v |-> acc, pos |-> i]
           ELSE IF IsOp(t, i, {"*", "/", "//", "%"}) THEN
               LET r == Parse("factor", t, i + 1, CalcErr)
               IN IF r.v.st = "err" THEN PFail
                  ELSE Parse("term_rest", t, r.pos, BinOp(t[i].s, acc, r.v))
           ELSE [v |-> acc, pos |-> i]
      [] rule = "term" ->
           LET r == Parse("factor", t, i, CalcErr)
           IN IF r.v.st = "err" THEN PFail ELSE Parse("term_rest", t, r.pos, r.v)
      [] rule = "expr_rest" ->
           IF acc.st = "err" THEN [v |-> acc, pos |-> i]
           ELSE IF IsOp(t, i, {"+", "-"}) THEN
               LET r == Parse("term", t, i + 1, CalcErr)
               IN IF r.v.st = "err" THEN PFail
                  ELSE Parse("expr_rest", t, r.pos, BinOp(t[i].s, acc, r.v))
           ELSE [v |-> acc, pos |-> i]
      [] rule = "expr" ->
           LET r == Parse("term", t, i, CalcErr)
           IN IF r.v.st = "err" THEN PFail ELSE Parse("expr_rest", t, r.pos, r.v)

ParseExpr(t, i) == Parse("expr", t, i, CalcErr)

\* N(sympify(expression)) for a string
Sympify(expression) ==
    LET t == Tokens(expression, 1)
    IN IF t = <<>> \/ \E i \in 1..Len(t) : t[i].k = "bad" THEN CalcErr
       ELSE LET r == ParseExpr(t, 1)
            IN IF r.v.st = "err" \/ r.pos # Len(t) + 1 THEN CalcErr ELSE r.v

\* Decimal(str(f)).quantize(Decimal("0.01"), ROUND_HALF_UP), as f"{d:.2f}"
TwoDecimals(n, d) ==
    LET a == Abs(n)
        q == (a * 200 + d) \div (2 * d)
        body == NatStr(q \div 100) \o <<".">>
                \o <<DigitChars[((q % 100) \div 10) + 1], DigitChars[(q % 10) + 1]>>
        txt == IF n < 0 THEN <<"-">> \o body ELSE body
    IN IF txt = Chars("-0.00") THEN Chars("0.00") ELSE txt

ToolResult(ok, content) == [ok |-> ok, content |-> content]

\* f"Math calculation error: {e}", e the text of the exception
MathError == Chars("Math calculation error: <e>")
Inexact == Chars("<digits>")

\* calculate(expression) for a string
calculate(expression) ==
    LET val == Sympify(expression)
    IN IF val.st = "err" THEN ToolResult(FALSE, MathError)
       ELSE IF val.st = "inexact" THEN ToolResult(TRUE, Inexact)
       ELSE IF val.d = 1 THEN ToolResult(TRUE, IntStr(val.n))
       ELSE ToolResult(TRUE, TwoDecimals(val.n, val.d))

-----------------------------------------------------------------------------
(* json.loads.  A value is [t, s, items]: t its type, s the characters of  *)
(* a string or of a number literal, items the members of an object (key k  *)
(* and value val) or the elements of a list (val).                         *)

JNull == [t |-> "null", s |-> <<>>, items |-> <<>>]
JBool(b) == [t |-> "bool", s |-> IF b THEN Chars("true") ELSE Chars("false"), items |-> <<>>]
JStr(cs) == [t |-> "str", s |-> cs, items |-> <<>>]
JNum(cs) == [t |-> "num", s |-> cs, items |-> <<>>]
JList(vals) ==
    [t |-> "list", s |-> <<>>,
     items |-> [i \in 1..Len(vals) |-> [k |-> <<>>, val |-> vals[i]]]]
JObj(members) == [t |-> "dict", s |-> <<>>, items |-> members]
Member(key, val) == [k |-> key, val |-> val]

\* first index >= i that holds no white space (Len(s) + 1 when none)
SkipWs(s, i) ==
    LET solid == {j \in i..Len(s) : ~IsSpace(s[j])}
    IN IF solid = {} THEN Len(s) + 1 ELSE CHOOSE j \in solid : \A k \in solid : j <= k

JFail == [ok |-> FALSE, val |-> JNull, pos |-> 0]
JOk(val, pos) == [ok |-> TRUE, val |-> val, pos |-> pos]

\* a string literal that opens at s[i]; control characters may not occur in it
ParseString(s, i) ==
    LET close == Find(s, <<DQ>>, i + 1)
    IN IF close = 0 THEN JFail
       ELSE IF \E j \in (i + 1)..(close - 1) : IsSpace(s[j]) /\ s[j] # " " THEN JFail
       ELSE JOk(JStr(SubSeq(s, i + 1, close - 1)), close + 1)

\* end of the run of digits that starts at i (i - 1 when s[i] is no digit)
DigitsEnd(s, i) ==
    LET stops == {j \in i..Len(s) : ~IsDigit(s[j])}
    IN IF stops = {} THEN Len(s)
       ELSE (CHOOSE j \in stops : \A k \in stops : j <= k) - 1

\* -?(0|[1-9]\d*)(\.\d+)?
ParseNumber(s, i) ==
    LET d == IF s[i] = "-" THEN i + 1 ELSE i
        e == IF d <= Len(s) /\ s[d] = "0" THEN d ELSE DigitsEnd(s, d)
        f == IF e + 1 <= Len(s) /\ s[e + 1] = "." /\ DigitsEnd(s, e + 2) >= e + 2
             THEN DigitsEnd(s, e + 2) ELSE e
    IN IF d > Len(s) \/ e < d THEN JFail
       ELSE JOk(JNum(SubSeq(s, i, f)), f + 1)

RECURSIVE ParseValue(_, _), ParseMembers(_, _, _), ParseElements(_, _, _)

\* the members of an object after "{" or ","; i is at the key
ParseMembers(s, i, acc) ==
    IF i > Len(s) \/ s[i] # DQ THEN JFail
    ELSE LET key == ParseString(s, i)
             colon == IF key.ok THEN SkipWs(s, key.pos) ELSE 0
         IN IF ~key.ok \/ colon > Len(s) \/ s[colon] # ":" THEN JFail
            ELSE LET v == ParseValue(s, SkipWs(s, colon + 1))
                     nxt == IF v.ok THEN SkipWs(s, v.pos) ELSE 0
                     got == Append(acc, Member(key.val.s, v.val))
                 IN IF ~v.ok \/ nxt > Len(s) THEN JFail
                    ELSE IF s[nxt] = "}" THEN JOk(JObj(got), nxt + 1)
                    ELSE IF s[nxt] = "," THEN ParseMembers(s, SkipWs(s, nxt + 1), got)
                    ELSE JFail

\* the elements of a list after "[" or ","; i is at the element
ParseElements(s, i, acc) ==
    LET v == ParseValue(s, i)
        nxt == IF v.ok THEN SkipWs(s, v.pos) ELSE 0
        got == Append(acc, v.val)
    IN IF ~v.ok \/ nxt > Len(s) THEN JFail
       ELSE IF s[nxt] = "]" THEN JOk(JList(got), nxt + 1)
       ELSE IF s[nxt] = "," THEN ParseElements(s, SkipWs(s, nxt + 1), got)
       ELSE JFail

ParseValue(s, i) ==
    IF i > Len(s) THEN JFail
    ELSE IF s[i] = DQ THEN ParseString(s, i)
    ELSE IF s[i] = "{" THEN
        LET j == SkipWs(s, i + 1)
        IN IF j <= Len(s) /\ s[j] = "}" THEN JOk(JObj(<<>>), j + 1)
           ELSE ParseMembers(s, j, <<>>)
    ELSE IF s[i] = "[" THEN
        LET j == SkipWs(s, i + 1)
        IN IF j <= Len(s) /\ s[j] = "]" THEN JOk(JList(<<>>), j + 1)
           ELSE ParseElements(s, j, <<>>)
    ELSE IF MatchAt(s, i, Chars("null")) THEN JOk(JNull, i + 4)
    ELSE IF MatchAt(s, i, Chars("true")) THEN JOk(JBool(TRUE), i + 4)
    ELSE IF MatchAt(s, i, Chars("false")) THEN JOk(JBool(FALSE), i + 5)
    ELSE IF s[i] = "-" \/ IsDigit(s[i]) THEN ParseNumber(s, i)
    ELSE JFail

\* json.loads(s): ok = FALSE stands for the exception it raises
json_loads(s) ==
    LET v == ParseValue(s, SkipWs(s, 1))
    IN IF v.ok /\ SkipWs(s, v.pos) = Len(s) + 1 THEN v ELSE JFail

\* "function" in obj, for a dict
HasKey(o, key) == \E i \in 1..Len(o.items) : o.items[i].k = key

\* dict.get(key, default): the last member of that name decides
DictGet(o, key, default) ==
    LET hits == {i \in 1..Len(o.items) : o.items[i].k = key}
    IN IF hits = {} THEN default
       ELSE o.items[CHOOSE i \in hits : \A j \in hits : i >= j].val

\* isinstance(obj, dict) and "function" in obj, for the value json.loads gave
IsCall(r) == r.ok /\ r.val.t = "dict" /\ HasKey(r.val, Chars("function"))

-----------------------------------------------------------------------------
(* _extract_json_call                                                      *)

None == [t |-> "None", s |-> <<>>, items |-> <<>>]

Fence == <<BT, BT, BT>>

\* the match of ```(?:json)?\s*(\{.*?\})\s*``` that starts at i, flags S and I:
\* [ok, from, to] the bounds of group 1, and next, the index after the match
FenceMatchAt(s, i) ==
    LET j0 == i + 3
        j1 == IF MatchAtLower(s, j0, Chars("json")) THEN j0 + 4 ELSE j0
        open == SkipWs(s, j1)
        ends == {e \in (open + 1)..Len(s) :
                    s[e] = "}" /\ MatchAt(s, SkipWs(s, e + 1), Fence)}
        e == CHOOSE x \in ends : \A y \in ends : x <= y
    IN IF open > Len(s) \/ s[open] # "{" \/ ends = {}
       THEN [ok |-> FALSE, from |-> 0, to |-> 0, next |-> i + 1]
       ELSE [ok |-> TRUE, from |-> open, to |-> e, next |-> SkipWs(s, e + 1) + 3]

\* the loop over re.finditer from index i: the first block that holds a call
RECURSIVE FencedCall(_, _)
FencedCall(s, i) ==
    LET at == Find(s, Fence, i)
    IN IF at = 0 THEN None
       ELSE LET m == FenceMatchAt(s, at)
                r == json_loads(Strip(SubSeq(s, m.from, m.to)))
            IN IF m.ok /\ IsCall(r) THEN r.val ELSE FencedCall(s, m.next)

Opener == <<"{", DQ>> \o Chars("function") \o <<DQ>>

\* depth after s[j] in the loop that starts at idx
Depth(s, idx, j) ==
    Cardinality({x \in idx..j : s[x] = "{"}) - Cardinality({x \in idx..j : s[x] = "}"})

\* the loop "for j in range(idx, len(s))" from index j on
RECURSIVE BraceScan(_, _, _)
BraceScan(s, idx, j) ==
    LET zeros == {z \in j..Len(s) : s[z] = "}" /\ Depth(s, idx, z) = 0}
        z == CHOOSE x \in zeros : \A y \in zeros : x <= y
        r == json_loads(SubSeq(s, idx, z))
    IN IF zeros = {} THEN None
       ELSE IF ~r.ok THEN None
       ELSE IF IsCall(r) THEN r.val
       ELSE BraceScan(s, idx, z + 1)

BraceCall(s) ==
    LET idx == Find(s, Opener, 1)
    IN IF idx = 0 THEN None ELSE BraceScan(s, idx, idx)

\* an extractor that returns whatever the whole text parses to
_extract_any_json(text) ==
    LET s == Strip(text)
        whole == json_loads(s)
        fenced == FencedCall(s, 1)
    IN IF whole.ok THEN whole.val
       ELSE IF fenced # None THEN fenced
       ELSE BraceCall(s)

\* an extractor that matches braces before it looks at the fenced blocks
_extract_brace_first(text) ==
    LET s == Strip(text)
        whole == json_loads(s)
        braced == BraceCall(s)
    IN IF IsCall(whole) THEN whole.val
       ELSE IF braced # None THEN braced
       ELSE FencedCall(s, 1)

_extract_json_call(text) ==
    LET s == Strip(text)
        whole == json_loads(s)
        fenced == FencedCall(s, 1)
    IN IF IsCall(whole) THEN whole.val
       ELSE IF fenced # None THEN fenced
       ELSE BraceCall(s)

-----------------------------------------------------------------------------
(* The tools as the router sees them.  net is what the network gives the   *)
(* call: [ok, content], the ToolResult of a call that reaches the network. *)

\* bool(v) is False
Falsy(v) ==
    \/ v.t = "null"
    \/ v.t = "bool" /\ v.s = Chars("false")
    \/ v.t = "num" /\ \A i \in 1..Len(v.s) : v.s[i] \in {"0", "-", "."}
    \/ v.t = "str" /\ v.s = <<>>
    \/ v.t \in {"list", "dict"} /\ v.items = <<>>

\* str(v), as an f-string renders it
Str(v) ==
    CASE v.t = "str" -> v.s
      [] v.t = "num" -> v.s
      [] v.t = "null" -> Chars("None")
      [] v.t = "bool" -> IF v.s = Chars("true") THEN Chars("True") ELSE Chars("False")
      [] OTHER -> Chars("<repr>")

WeatherError == Chars("Weather error: <e>")
ArxivError == Chars("arXiv search error: <e>")
EmptyQuery == Chars("Please provide a search query for arXiv papers.")

\* get_weather(location): a truthy location that is no string has no strip()
get_weather(location, net) ==
    IF ~Falsy(location) /\ location.t # "str" THEN ToolResult(FALSE, WeatherError)
    ELSE net

\* calculate(expression) for any value: a number is its own expression
calculate_value(expression) ==
    IF expression.t \in {"str", "num"} THEN calculate(expression.s)
    ELSE ToolResult(FALSE, MathError)

\* search_arxiv(query)
search_arxiv(query, net) ==
    IF query.t # "str" THEN ToolResult(FALSE, ArxivError)
    ELSE IF Strip(query.s) = <<>> THEN ToolResult(FALSE, EmptyQuery)
    ELSE net

-----------------------------------------------------------------------------
(* try_route_llm_function_call                                             *)

\* the sentinel None of the two routing functions
NoMatch == <<"<None>">>

AliasNames == {Chars("recent_papers"), Chars("search_papers"),
               Chars("find_papers"), Chars("arxiv_search")}

\* an alias table that lacks recent_papers
ALIASES_without_recent(func) ==
    IF func.t = "str" /\ func.s \in AliasNames \ {Chars("recent_papers")}
    THEN JStr(Chars("search_arxiv")) ELSE func

\* ALIASES.get(func, func) for a hashable func
ALIASES(func) ==
    IF func.t = "str" /\ func.s \in AliasNames THEN JStr(Chars("search_arxiv")) ELSE func

\* hash(func) raises TypeError
Unhashable(func) == func.t \in {"list", "dict"}

IsName(func, name) == func.t = "str" /\ func.s = Chars(name)

\* a reply that leaves the name of the tool out of the error
ReplyWithoutName(name, r) ==
    IF r.ok THEN r.content ELSE Chars("Error: ") \o r.content

\* r.content if r.ok else f"Error from <name>: {r.content}"
Reply(name, r) ==
    IF r.ok THEN r.content ELSE Chars("Error from ") \o Chars(name) \o Chars(": ") \o r.content

UnknownFunction(func) == Chars("Error: Unknown function '") \o Str(func) \o Chars("'")
CouldNotProcess == Chars("Error: Could not process function call. Details: <e>")

\* the outcome of a routing function: its return value, whether it raised
\* instead, and the tool invocation it made, if any
Outcome(reply, exc, made, got) ==
    [reply |-> reply, raised |-> exc, calls |-> made, results |-> got]

Invocation(name, arg) == [name |-> name, arg |-> arg]

\* one branch "if func == name: r = tool(args.get(key, ""))"
Dispatch(name, key, args, r) ==
    Outcome(Reply(name, r), FALSE,
            <<Invocation(name, DictGet(args, Chars(key), JStr(<<>>)))>>, <<r>>)

\* lines 124-144, for the object o the extractor returned
RouteCall(o, net) ==
    LET func0 == DictGet(o, Chars("function"), JNull)
        func == ALIASES(func0)
        given == DictGet(o, Chars("arguments"), JObj(<<>>))
        args == IF Falsy(given) THEN JObj(<<>>) ELSE given
        arg(key) == DictGet(args, Chars(key), JStr(<<>>))
        known == \E n \in {"get_weather", "calculate", "search_arxiv"} : IsName(func, n)
    IN IF Unhashable(func0) THEN Outcome(NoMatch, TRUE, <<>>, <<>>)
       ELSE IF known /\ args.t # "dict" THEN Outcome(CouldNotProcess, FALSE, <<>>, <<>>)
       ELSE IF IsName(func, "get_weather")
            THEN Dispatch("get_weather", "location", args, get_weather(arg("location"), net))
       ELSE IF IsName(func, "calculate")
            THEN Dispatch("calculate", "expression", args, calculate_value(arg("expression")))
       ELSE IF IsName(func, "search_arxiv")
            THEN Dispatch("search_arxiv", "query", args, search_arxiv(arg("query"), net))
       ELSE Outcome(UnknownFunction(func), FALSE, <<>>, <<>>)

\* the outcome, with obj: what the extractor returned
try_route_llm_function_call(text, net) ==
    LET o == _extract_json_call(text)
        out == IF o = None THEN Outcome(NoMatch, FALSE, <<>>, <<>>) ELSE RouteCall(o, net)
    IN [obj |-> o, reply |-> out.reply, raised |-> out.raised, calls |-> out.calls,
        results |-> out.results]

-----------------------------------------------------------------------------
(* maybe_call_by_rules                                                     *)

\* re.search(r'(\*\*|[\+\-\*\/\%\^])', expr)
HasOperator(expr) == \E i \in 1..Len(expr) : expr[i] \in SetOf(Chars("+-*/%^"))

WeatherWords == {Chars("weather"), Chars("forecast"), Chars("temperature")}
ArxivWords == {Chars("arxiv"), Chars("paper"), Chars("papers"), Chars("literature"),
               Chars("recent research"), Chars("latest research")}

ContainsAny(s, words) == \E w \in words : Contains(s, w)

\* the character class [a-zA-Z\s,]
IsCityChar(c) == c \in LetterSet \/ IsSpace(c) \/ c = ","

\* the match of weather\s+(?:in|at|for)\s+([a-zA-Z\s,]+) that starts at w:
\* [ok, from, to] the bounds of group 1
CityMatchAt(s, w) ==
    LET p == SkipWs(s, w + 7)
        prep == IF MatchAt(s, p, Chars("in")) THEN 2
                ELSE IF MatchAt(s, p, Chars("at")) THEN 2
                ELSE IF MatchAt(s, p, Chars("for")) THEN 3 ELSE 0
        q == p + prep
        c == SkipWs(s, q)
        stops == {j \in c..Len(s) : ~IsCityChar(s[j])}
        last == IF stops = {} THEN Len(s)
                ELSE (CHOOSE j \in stops : \A k \in stops : j <= k) - 1
    IN IF ~MatchAt(s, w, Chars("weather")) \/ p = w + 7 \/ prep = 0 \/ c = q
       THEN [ok |-> FALSE, from |-> 0, to |-> 0]
       ELSE IF last >= c THEN [ok |-> TRUE, from |-> c, to |-> last]
       \* \s+ gives one white-space character back to the group
       ELSE IF c - q >= 2 THEN [ok |-> TRUE, from |-> c - 1, to |-> c - 1]
       ELSE [ok |-> FALSE, from |-> 0, to |-> 0]

TimeWords == <<
    <<Chars("today"), <<>> >>, <<Chars("tomorrow"), <<>> >>, <<Chars("now"), <<>> >>,
    <<Chars("tonight"), <<>> >>, <<Chars("morning"), <<>> >>,
    <<Chars("afternoon"), <<>> >>, <<Chars("evening"), <<>> >>,
    <<Chars("night"), <<>> >> >>

\* re.sub(r'\s+', ' ', s)
SquashSpaces(s) ==
    LET tagged == [i \in 1..Len(s) |->
                      <<IF IsSpace(s[i]) THEN " " ELSE s[i],
                        IsSpace(s[i]) /\ i > 1 /\ IsSpace(s[i - 1])>>]
        kept == SelectSeq(tagged, LAMBDA p : ~p[2])
    IN SubSeq([i \in 1..Len(kept) |-> kept[i][1]], 1, Len(kept))

\* lines 176-180: the city of "weather in/at/for <city>"
ExtractCity(ql) ==
    LET hits == {w \in 1..Len(ql) : CityMatchAt(ql, w).ok}
        m == CityMatchAt(ql, CHOOSE w \in hits : \A x \in hits : w <= x)
        city == IF hits = {} THEN <<>> ELSE Strip(SubSeq(ql, m.from, m.to))
    IN Strip(SquashSpaces(Strip(ApplyTable(city, TimeWords))))

\* the rules with the weather keywords looked at before the operator
maybe_call_weather_first(text, net) ==
    LET q == Strip(text)
        ql == Lower(q)
        expr == text_to_math_expr(q)
    IN IF ContainsAny(ql, WeatherWords) THEN
           LET city == ExtractCity(ql)
               r == get_weather(JStr(city), net)
           IN Outcome(Reply("get_weather", r), FALSE,
                      <<Invocation("get_weather", JStr(city))>>, <<r>>)
       ELSE IF expr # <<>> /\ HasOperator(expr) THEN
           LET r == calculate(expr)
           IN Outcome(Reply("calculate", r), FALSE,
                      <<Invocation("calculate", JStr(expr))>>, <<r>>)
       ELSE IF ContainsAny(ql, ArxivWords) THEN
           LET r == search_arxiv(JStr(q), net)
           IN Outcome(Reply("search_arxiv", r), FALSE,
                      <<Invocation("search_arxiv", JStr(q))>>, <<r>>)
       ELSE Outcome(NoMatch, FALSE, <<>>, <<>>)

maybe_call_by_rules(text, net) ==
    LET q == Strip(text)
        ql == Lower(q)
        expr == text_to_math_expr(q)
    IN IF expr # <<>> /\ HasOperator(expr) THEN
           LET r == calculate(expr)
           IN Outcome(Reply("calculate", r), FALSE,
                      <<Invocation("calculate", JStr(expr))>>, <<r>>)
       ELSE IF ContainsAny(ql, WeatherWords) THEN
           LET city == ExtractCity(ql)
               r == get_weather(JStr(city), net)
           IN Outcome(Reply("get_weather", r), FALSE,
                      <<Invocation("get_weather", JStr(city))>>, <<r>>)
       ELSE IF ContainsAny(ql, ArxivWords) THEN
           LET r == search_arxiv(JStr(q), net)
           IN Outcome(Reply("search_arxiv", r), FALSE,
                      <<Invocation("search_arxiv", JStr(q))>>, <<r>>)
       ELSE Outcome(NoMatch, FALSE, <<>>, <<>>)

-----------------------------------------------------------------------------
(* Inputs: the replies of the language model and the utterances            *)

MaxParts == 2
MaxWords == 2

\* json.dumps(v, separators=(",", ":")) for strings without escapes
RECURSIVE Dumps(_), DumpItems(_, _, _)
DumpItems(items, i, isDict) ==
    IF i > Len(items) THEN <<>>
    ELSE (IF i > 1 THEN <<",">> ELSE <<>>)
         \o (IF isDict THEN <<DQ>> \o items[i].k \o <<DQ, ":">> ELSE <<>>)
         \o Dumps(items[i].val) \o DumpItems(items, i + 1, isDict)
Dumps(v) ==
    CASE v.t = "str" -> <<DQ>> \o v.s \o <<DQ>>
      [] v.t = "num" -> v.s
      [] v.t = "bool" -> v.s
      [] v.t = "null" -> Chars("null")
      [] v.t = "list" -> <<"[">> \o DumpItems(v.items, 1, FALSE) \o <<"]">>
      [] v.t = "dict" -> <<"{">> \o DumpItems(v.items, 1, TRUE) \o <<"}">>

S(str) == JStr(Chars(str))
Args1(key, val) == JObj(<<Member(Chars(key), val)>>)

\* values of the "function" field
FuncValues ==
    {S("get_weather"), S("calculate"), S("search_arxiv"), S("recent_papers"),
     S("search_papers"), S("find_papers"), S("arxiv_search"), S("foo"), S(""),
     JNum(Chars("5")), JNull, JList(<<>>), JList(<<JNum(Chars("1"))>>),
     JObj(<<>>)}

\* values of the "arguments" field
ArgValues ==
    {JObj(<<>>), Args1("location", S("Paris")), Args1("expression", S("2+2")),
     Args1("expression", S("1/0")), Args1("query", S("llm")),
     Args1("query", S("}")), Args1("expression", S("{")),
     Args1("query", JStr(<<"a", BT, "b">>)), Args1("location", JNum(Chars("5"))),
     S("x"), JNum(Chars("7")), JNull, JList(<<JNum(Chars("1"))>>)}

\* the payload {"function": f, "arguments": a}
Call(f, a) == JObj(<<Member(Chars("function"), f), Member(Chars("arguments"), a)>>)

Payloads ==
    {Call(f, a) : f \in FuncValues, a \in ArgValues}
    \cup {JObj(<<Member(Chars("function"), f)>>) : f \in FuncValues}

Wraps == {"whole", "prose", "fenced", "fenced_prose"}

Fenced(text) == Fence \o Chars("json\n") \o text \o <<"\n">> \o Fence

Wrap(w, text) ==
    CASE w = "whole" -> text
      [] w = "prose" -> Chars("Here's the call: ") \o text \o Chars(" thanks")
      [] w = "fenced" -> Fenced(text)
      [] w = "fenced_prose" -> Chars("Sure:\n") \o Fenced(text) \o Chars("\nDone.")

NoCall == JObj(<<>>)

PayloadInputs ==
    {[text |-> Wrap(w, Dumps(c)), meta |-> [kind |-> "payload", wrap |-> w, call |-> c, parts |-> <<>>]] :
        c \in Payloads, w \in Wraps}

CallA == Call(S("calculate"), Args1("expression", S("2+2")))
CallC == JObj(<<Member(Chars("function"), S("foo"))>>)
CallB == JObj(<<Member(Chars("function"), S("get_weather"))>>)
CallD == Call(S("search_arxiv"), Args1("query", S("llm")))
CallBrace == JObj(<<Member(Chars("function"), S("{"))>>)

\* the pieces a reply is put together from
PartText(kind) ==
    CASE kind = "prose" -> Chars(" ok ")
      [] kind = "call_a" -> Dumps(CallA)
      [] kind = "call_c" -> Dumps(CallC)
      [] kind = "fenced_b" -> Fenced(Dumps(CallB))
      [] kind = "fenced_d" -> Fence \o Dumps(CallD) \o Fence
      [] kind = "broken" -> Opener \o Chars(":x}")
      [] kind = "truncated" -> Opener \o Chars(":{")
      [] kind = "nofunc" -> Dumps(Args1("a", JNum(Chars("1"))))
      [] kind = "nested" -> Dumps(JList(<<CallC>>))
      [] kind = "fence" -> Fence
      [] kind = "call_brace" -> Dumps(CallBrace)

PartKinds == {"prose", "call_a", "call_c", "fenced_b", "fenced_d", "broken",
              "truncated", "nofunc", "nested", "fence", "call_brace"}

PartSeqs == UNION {[1..n -> PartKinds] : n \in 0..MaxParts}

RECURSIVE JoinParts(_)
JoinParts(ps) == IF ps = <<>> THEN <<>> ELSE PartText(Head(ps)) \o JoinParts(Tail(ps))

PartInputs ==
    {[text |-> JoinParts(ps), meta |-> [kind |-> "parts", wrap |-> "", call |-> NoCall, parts |-> ps]] :
        ps \in PartSeqs}

LlmInputs == PayloadInputs \cup PartInputs

Words == <<Chars("what is five plus three"), Chars("five"), Chars("plus"), Chars("5 plus 3"),
           Chars("weather"), Chars("5"), Chars("3"), Chars("Weather in Paris"),
           Chars("papers"), Chars("hello"), Chars("over the weekend")>>

WordSeqs == UNION {[1..n -> 1..Len(Words)] : n \in 0..MaxWords}

RECURSIVE JoinWords(_)
JoinWords(ws) ==
    IF ws = <<>> THEN <<>>
    ELSE IF Len(ws) = 1 THEN Words[ws[1]]
    ELSE Words[Head(ws)] \o <<" ">> \o JoinWords(Tail(ws))

Utterances == {JoinWords(ws) : ws \in WordSeqs}

MaxPieces == 3

\* arguments of text_to_math_expr: up to MaxPieces pieces, one after another
Pieces == <<Chars("+"), Chars("-"), Chars("/"), Chars("*"), Chars(" "), Chars("5"),
            Chars("."), Chars("a"), Chars("plus"), Chars("over"), Chars("("),
            Chars("to the power of"), Chars("*+")>>

PieceSeqs == UNION {[1..n -> 1..Len(Pieces)] : n \in 0..MaxPieces}

RECURSIVE JoinPieces(_)
JoinPieces(ps) == IF ps = <<>> THEN <<>> ELSE Pieces[Head(ps)] \o JoinPieces(Tail(ps))

MathInputs == {JoinPieces(ps) : ps \in PieceSeqs}

NetOutcomes == {ToolResult(TRUE, Chars("sunny")), ToolResult(FALSE, Chars("timeout"))}

-----------------------------------------------------------------------------
(* The routing sequence of a request (main.py lines 39-44)                 *)

NoMeta == [kind |-> "none", wrap |-> "", call |-> NoCall, parts |-> <<>>]

MaxRequests == 3
Requests == 1..MaxRequests

\* the tools a routing function can call
ToolNames == {"get_weather", "calculate", "search_arxiv"}

\* positions of chat_endpoint at which the coroutine waits for the event loop
\* to resume it
Ready == {"new", "asr_done", "llm_done", "tts_done"}

\* the event loop is between callbacks and request r's coroutine can be resumed
CanResume(r) == loop = 0 /\ rpc[r] \in Ready

InitServer ==
    /\ loop = 0
    /\ rpc = [r \in Requests |-> "new"]
    /\ rtool = [r \in Requests |-> "none"]

InitExtract ==
    /\ llm_output = <<>>
    /\ meta = NoMeta

InitRoute ==
    /\ pc = "idle"
    /\ user_text = <<>>
    /\ obj = None
    /\ routed = NoMatch
    /\ tool_hit = NoMatch
    /\ calls = <<>>
    /\ results = <<>>
    /\ raised = FALSE

MaxWorkers == 2
MaxExchanges == 12
Workers == 1..MaxWorkers

\* len(self.history) > 10 and self.history[-10:]
HistoryCap == 10

\* ConvManager(max_history = 4)
max_history == 4

\* seq[-n:]
LastN(seq, n) == IF Len(seq) <= n THEN seq ELSE SubSeq(seq, Len(seq) - n + 1, Len(seq))

\* conv_manager.history: the list the attribute is bound to
history == heap[cur]

\* self.history = [] in __init__
InitHistory ==
    /\ heap = << <<>> >>
    /\ cur = 1
    /\ hpc = [w \in Workers |-> "idle"]
    /\ hex = [w \in Workers |-> 0]
    /\ href = [w \in Workers |-> 0]
    /\ hslice = [w \in Workers |-> <<>>]
    /\ hseen = [w \in Workers |-> <<>>]
    /\ appended = <<>>
    /\ started = 0

InitMath ==
    /\ math_pc = "call"
    /\ math_q = <<>>
    /\ math_s = <<>>

Init == InitRoute /\ InitExtract /\ InitServer /\ InitHistory /\ InitMath

\* routed = try_route_llm_function_call(llm_raw)
Route ==
    \E inp \in LlmInputs, net \in NetOutcomes :
      \E out \in {try_route_llm_function_call(inp.text, net)} :
        /\ pc = "idle"
        /\ obj' = out.obj
        /\ routed' = out.reply
        /\ raised' = out.raised
        /\ calls' = out.calls
        /\ results' = out.results
        /\ pc' = IF out.raised THEN "raised" ELSE "routed"
        /\ UNCHANGED <<user_text, tool_hit, llm_output, meta>>
        /\ UNCHANGED serverVars
        /\ UNCHANGED <<histVars, mathVars>>

\* if routed is None: tool_hit = maybe_call_by_rules(user_text)
Rules ==
    \E u \in Utterances, net \in NetOutcomes :
      \E out \in {maybe_call_by_rules(u, net)} :
        /\ pc = "routed"
        /\ routed = NoMatch
        /\ user_text' = u
        /\ tool_hit' = out.reply
        /\ raised' = out.raised
        /\ calls' = out.calls
        /\ results' = out.results
        /\ pc' = "ruled"
        /\ UNCHANGED <<obj, routed, llm_output, meta>>
        /\ UNCHANGED serverVars
        /\ UNCHANGED <<histVars, mathVars>>

\* else: reply_text = routed
Routed ==
    /\ pc = "routed"
    /\ routed # NoMatch
    /\ pc' = "done"
    /\ UNCHANGED <<user_text, obj, routed, tool_hit, calls, results, raised,
                   llm_output, meta>>
    /\ UNCHANGED serverVars
    /\ UNCHANGED <<histVars, mathVars>>

\* the request ends (a reply, or the handler's except clause); the next starts
NextRequest ==
    /\ pc \in {"done", "ruled", "raised"}
    /\ pc' = "idle"
    /\ user_text' = <<>>
    /\ obj' = None
    /\ routed' = NoMatch
    /\ tool_hit' = NoMatch
    /\ calls' = <<>>
    /\ results' = <<>>
    /\ raised' = FALSE
    /\ UNCHANGED <<llm_output, meta>>
    /\ UNCHANGED serverVars
    /\ UNCHANGED <<histVars, mathVars>>

Next == Route \/ Rules \/ Routed \/ NextRequest

Spec == Init /\ [][Next]_vars

-----------------------------------------------------------------------------
(* chat_endpoint under the event loop: loop is the request whose coroutine *)
(* runs on the loop's thread (0: the loop is free), rpc[r] the position of *)
(* request r, rtool[r] the tool it is inside.                              *)

\* audio_bytes = await file.read(); await run_in_threadpool(transcribe_audio, ...)
StartAsr(r) ==
    /\ CanResume(r)
    /\ rpc[r] = "new"
    /\ rpc' = [rpc EXCEPT ![r] = "asr"]
    /\ UNCHANGED <<loop, rtool>>
    /\ UNCHANGED routeVars
    /\ UNCHANGED <<histVars, mathVars>>

\* a worker thread of the pool finishes the function it was given
PoolDone(r) ==
    /\ rpc[r] \in {"asr", "llm", "tts"}
    /\ rpc' = [rpc EXCEPT ![r] = CASE rpc[r] = "asr" -> "asr_done"
                                     [] rpc[r] = "llm" -> "llm_done"
                                     [] OTHER -> "tts_done"]
    /\ UNCHANGED <<loop, rtool>>
    /\ UNCHANGED routeVars
    /\ UNCHANGED <<histVars, mathVars>>

\* llm_raw = await run_in_threadpool(conv_manager.generate_response, user_text)
StartLlm(r) ==
    /\ CanResume(r)
    /\ rpc[r] = "asr_done"
    /\ rpc' = [rpc EXCEPT ![r] = "llm"]
    /\ UNCHANGED <<loop, rtool>>
    /\ UNCHANGED routeVars
    /\ UNCHANGED <<histVars, mathVars>>

\* routed = try_route_llm_function_call(llm_raw), called by the coroutine
\* itself: a tool it calls runs on the thread of the event loop
RouteTool(r) ==
    /\ CanResume(r)
    /\ rpc[r] = "llm_done"
    /\ \E t \in ToolNames :
         /\ rpc' = [rpc EXCEPT ![r] = "route_tool"]
         /\ rtool' = [rtool EXCEPT ![r] = t]
    /\ loop' = r
    /\ UNCHANGED routeVars
    /\ UNCHANGED <<histVars, mathVars>>

\* routed is None and maybe_call_by_rules(user_text) calls a tool, again on
\* the thread of the event loop
RulesTool(r) ==
    /\ CanResume(r)
    /\ rpc[r] = "llm_done"
    /\ \E t \in ToolNames :
         /\ rpc' = [rpc EXCEPT ![r] = "rules_tool"]
         /\ rtool' = [rtool EXCEPT ![r] = t]
    /\ loop' = r
    /\ UNCHANGED routeVars
    /\ UNCHANGED <<histVars, mathVars>>

\* neither routing function calls a tool; on to
\* await run_in_threadpool(synthesize_speech, reply_text)
NoTool(r) ==
    /\ CanResume(r)
    /\ rpc[r] = "llm_done"
    /\ rpc' = [rpc EXCEPT ![r] = "tts"]
    /\ UNCHANGED <<loop, rtool>>
    /\ UNCHANGED routeVars
    /\ UNCHANGED <<histVars, mathVars>>

\* try_route_llm_function_call raises; except Exception returns the 500 reply
RouteRaises(r) ==
    /\ CanResume(r)
    /\ rpc[r] = "llm_done"
    /\ rpc' = [rpc EXCEPT ![r] = "replied"]
    /\ UNCHANGED <<loop, rtool>>
    /\ UNCHANGED routeVars
    /\ UNCHANGED <<histVars, mathVars>>

\* the tool returns; the coroutine runs on to the await of synthesize_speech
ToolReturn(r) ==
    /\ loop = r
    /\ rpc[r] \in {"route_tool", "rules_tool"}
    /\ rpc' = [rpc EXCEPT ![r] = "tts"]
    /\ rtool' = [rtool EXCEPT ![r] = "none"]
    /\ loop' = 0
    /\ UNCHANGED routeVars
    /\ UNCHANGED <<histVars, mathVars>>

\* return FileResponse(audio_path, ...)
Reply200(r) ==
    /\ CanResume(r)
    /\ rpc[r] = "tts_done"
    /\ rpc' = [rpc EXCEPT ![r] = "replied"]
    /\ UNCHANGED <<loop, rtool>>
    /\ UNCHANGED routeVars
    /\ UNCHANGED <<histVars, mathVars>>

\* the client sends its next request
NewRequest(r) ==
    /\ rpc[r] = "replied"
    /\ rpc' = [rpc EXCEPT ![r] = "new"]
    /\ UNCHANGED <<loop, rtool>>
    /\ UNCHANGED routeVars
    /\ UNCHANGED <<histVars, mathVars>>

NextServer ==
    \E r \in Requests :
        \/ StartAsr(r)
        \/ PoolDone(r)
        \/ StartLlm(r)
        \/ RouteTool(r)
        \/ RulesTool(r)
        \/ NoTool(r)
        \/ RouteRaises(r)
        \/ ToolReturn(r)
        \/ Reply200(r)
        \/ NewRequest(r)

SpecServer == Init /\ [][NextServer]_vars

-----------------------------------------------------------------------------
(* ConvManager.generate_response on the worker threads of the pool         *)
(* (main.py line 33).  There is no lock: a thread can be switched out      *)
(* between any two of the steps below.  An exchange is the number of its   *)
(* call; it stands for the pair (user_text, reply).                        *)

\* lines 101-109: the prompt is built from self.history[-self.max_history:]
BuildPrompt(w) ==
    /\ hpc[w] = "idle"
    /\ started < MaxExchanges
    /\ started' = started + 1
    /\ hex' = [hex EXCEPT ![w] = started + 1]
    /\ hseen' = [hseen EXCEPT ![w] = LastN(history, max_history)]
    /\ hpc' = [hpc EXCEPT ![w] = "generate"]
    /\ UNCHANGED <<heap, cur, href, hslice, appended>>
    /\ UNCHANGED <<routeVars, serverVars, mathVars>>

\* lines 112-118: the reply is generated
GenerateOnce(w) ==
    /\ hpc[w] = "generate"
    /\ hseen' = [hseen EXCEPT ![w] = <<>>]
    /\ hpc' = [hpc EXCEPT ![w] = "load"]
    /\ UNCHANGED <<heap, cur, hex, href, hslice, appended, started>>
    /\ UNCHANGED <<routeVars, serverVars, mathVars>>

\* line 121: self.history is evaluated, the list object is on the stack
LoadHistory(w) ==
    /\ hpc[w] = "load"
    /\ href' = [href EXCEPT ![w] = cur]
    /\ hpc' = [hpc EXCEPT ![w] = "append"]
    /\ UNCHANGED <<heap, cur, hex, hslice, hseen, appended, started>>
    /\ UNCHANGED <<routeVars, serverVars, mathVars>>

\* line 121: .append((user_text, reply)) on the list that was loaded
AppendPair(w) ==
    /\ hpc[w] = "append"
    /\ heap' = [heap EXCEPT ![href[w]] = Append(@, hex[w])]
    /\ appended' = Append(appended, hex[w])
    /\ href' = [href EXCEPT ![w] = 0]
    /\ hpc' = [hpc EXCEPT ![w] = "check"]
    /\ UNCHANGED <<cur, hex, hslice, hseen, started>>
    /\ UNCHANGED <<routeVars, serverVars, mathVars>>

\* line 122: if len(self.history) > 10; line 124 when it is not
CheckLen(w) ==
    /\ hpc[w] = "check"
    /\ IF Len(history) > HistoryCap
       THEN /\ hpc' = [hpc EXCEPT ![w] = "slice"]
            /\ hex' = hex
       ELSE /\ hpc' = [hpc EXCEPT ![w] = "idle"]
            /\ hex' = [hex EXCEPT ![w] = 0]
    /\ UNCHANGED <<heap, cur, href, hslice, hseen, appended, started>>
    /\ UNCHANGED <<routeVars, serverVars, mathVars>>

\* line 123, right-hand side: self.history[-10:] makes a new list
SliceLast(w) ==
    /\ hpc[w] = "slice"
    /\ hslice' = [hslice EXCEPT ![w] = LastN(history, HistoryCap)]
    /\ hpc' = [hpc EXCEPT ![w] = "store"]
    /\ UNCHANGED <<heap, cur, hex, href, hseen, appended, started>>
    /\ UNCHANGED <<routeVars, serverVars, mathVars>>

\* line 123, the assignment self.history = ...; line 124
StoreHistory(w) ==
    /\ hpc[w] = "store"
    /\ heap' = Append(heap, hslice[w])
    /\ cur' = Len(heap) + 1
    /\ hslice' = [hslice EXCEPT ![w] = <<>>]
    /\ hex' = [hex EXCEPT ![w] = 0]
    /\ hpc' = [hpc EXCEPT ![w] = "idle"]
    /\ UNCHANGED <<href, hseen, appended, started>>
    /\ UNCHANGED <<routeVars, serverVars, mathVars>>

NextHistory ==
    \E w \in Workers :
        \/ BuildPrompt(w)
        \/ GenerateOnce(w)
        \/ LoadHistory(w)
        \/ AppendPair(w)
        \/ CheckLen(w)
        \/ SliceLast(w)
        \/ StoreHistory(w)

SpecHistory == Init /\ [][NextHistory]_vars

-----------------------------------------------------------------------------
(* text_to_math_expr on its own: one call per step                         *)

Normalize ==
    \E q \in MathInputs :
        \E e \in {text_to_math_expr(q)} :
            /\ math_pc = "call"
            /\ math_q' = q
            /\ math_s' = e
            /\ math_pc' = "returned"
            /\ UNCHANGED <<routeVars, serverVars, histVars>>

Normalized ==
    /\ math_pc = "returned"
    /\ math_pc' = "call"
    /\ math_q' = <<>>
    /\ math_s' = <<>>
    /\ UNCHANGED <<routeVars, serverVars, histVars>>

NextMath == Normalize \/ Normalized

SpecMath == Init /\ [][NextMath]_vars

-----------------------------------------------------------------------------
(* _extract_json_call on its own: one call per step                        *)

Extract ==
    \E inp \in LlmInputs :
      \E o \in {_extract_json_call(inp.text)} :
        /\ pc = "idle"
        /\ llm_output' = inp.text
        /\ meta' = inp.meta
        /\ obj' = o
        /\ pc' = "extracted"
        /\ UNCHANGED <<user_text, routed, tool_hit, calls, results, raised>>
        /\ UNCHANGED serverVars
        /\ UNCHANGED <<histVars, mathVars>>

Extracted ==
    /\ pc = "extracted"
    /\ pc' = "idle"
    /\ llm_output' = <<>>
    /\ meta' = NoMeta
    /\ obj' = None
    /\ UNCHANGED <<user_text, routed, tool_hit, calls, results, raised>>
    /\ UNCHANGED serverVars
    /\ UNCHANGED <<histVars, mathVars>>

NextExtract == Extract \/ Extracted

SpecExtract == Init /\ [][NextExtract]_vars

-----------------------------------------------------------------------------
(* Properties                                                              *)

\* C1: routing never raises: whatever JSON types the fields "function" and
\* "arguments" of an accepted payload have, and whatever the tools answer,
\* try_route_llm_function_call and maybe_call_by_rules return a string or
\* None and no exception reaches the caller.
C1_NeverRaises == raised = FALSE

\* a payload {"function": "X", "arguments": {...}} with a string name and
\* string-valued arguments
WellFormedPayload(c) ==
    /\ HasKey(c, Chars("function"))
    /\ HasKey(c, Chars("arguments"))
    /\ DictGet(c, Chars("function"), JNull).t = "str"
    /\ LET a == DictGet(c, Chars("arguments"), JNull)
       IN a.t = "dict" /\ \A i \in 1..Len(a.items) : a.items[i].val.t = "str"

\* C2: for every well-formed payload, as the whole text, inside prose or
\* inside a fenced block, _extract_json_call returns an object whose
\* "function" and "arguments" equal those of the payload, also when an
\* argument string holds a brace or a backtick.
C2_PayloadRecovered ==
    (pc = "extracted" /\ meta.kind = "payload" /\ WellFormedPayload(meta.call)) =>
        /\ obj # None
        /\ DictGet(obj, Chars("function"), JNull)
             = DictGet(meta.call, Chars("function"), JNull)
        /\ DictGet(obj, Chars("arguments"), JNull)
             = DictGet(meta.call, Chars("arguments"), JNull)

\* the tools the rules called for the utterance of this request
RuleTools == {calls[i].name : i \in 1..Len(calls)}

\* C3: in maybe_call_by_rules, when the normalised utterance holds an
\* arithmetic operator, calculate is the only tool called; get_weather is
\* called only when the operator check failed and a weather keyword is
\* there; search_arxiv only when both checks failed.
C3_RulePrecedence ==
    pc = "ruled" =>
        LET q == Strip(user_text)
            op == HasOperator(text_to_math_expr(q))
            weather == ContainsAny(Lower(q), WeatherWords)
        IN /\ op => (Len(calls) = 1 /\ RuleTools = {"calculate"})
           /\ "get_weather" \in RuleTools => (~op /\ weather)
           /\ "search_arxiv" \in RuleTools => (~op /\ ~weather)

\* an utterance with an arithmetic phrase and the word "weather" has gone to
\* calculate
C3_Witness ==
    /\ pc = "ruled"
    /\ Contains(Lower(user_text), Chars("weather"))
    /\ Contains(user_text, Chars("plus"))
    /\ calls = <<Invocation("calculate", S("5+3"))>>
    /\ tool_hit = Chars("8")

\* C4: "what is five plus three" normalises to a string with exactly one "+"
\* and no letter, and calculate answers that string with the result "8".
C4_FivePlusThree ==
    (pc = "ruled" /\ user_text = Chars("what is five plus three")) =>
        /\ Len(calls) = 1
        /\ calls[1].name = "calculate"
        /\ Cardinality({i \in 1..Len(calls[1].arg.s) : calls[1].arg.s[i] = "+"}) = 1
        /\ \A i \in 1..Len(calls[1].arg.s) : calls[1].arg.s[i] \notin LetterSet
        /\ results[1].ok
        /\ tool_hit = Chars("8")

\* the name of the call, after alias resolution, is none of the three tools
UnknownName(o) ==
    LET f == DictGet(o, Chars("function"), JNull)
    IN ~(f.t = "str" /\ f.s \in AliasNames \cup {Chars(n) : n \in ToolNames})

\* C5: for every extracted call whose name, after alias resolution, is none
\* of get_weather, calculate and search_arxiv, try_route_llm_function_call
\* calls no tool and returns exactly "Error: Unknown function 'X'", X the
\* name as supplied.
C5_UnknownFunction ==
    (pc \in {"routed", "raised", "done"} /\ obj # None /\ UnknownName(obj)) =>
        /\ ~raised
        /\ calls = <<>>
        /\ routed = Chars("Error: Unknown function '")
                      \o Str(DictGet(obj, Chars("function"), JNull)) \o <<"'">>

\* what the claim expects for the one tool call of this request
ExpectedReply ==
    IF results[1].ok THEN results[1].content
    ELSE Chars("Error from ") \o Chars(calls[1].name) \o Chars(": ")
         \o results[1].content

\* C6: for every tool dispatch, on the function-call path and on the rule
\* path, the reply is the content of the result when it succeeded and
\* exactly "Error from <name>: <content>" when it failed, <name> the
\* canonical name of the tool that was called.
C6_ReplyFormat ==
    Len(calls) = 1 =>
        /\ calls[1].name \in ToolNames
        /\ pc \in {"routed", "done"} => routed = ExpectedReply
        /\ pc = "ruled" => tool_hit = ExpectedReply

\* a get_weather call of the function-call path has failed with "timeout"
C6_Witness ==
    /\ pc = "routed"
    /\ Len(calls) = 1
    /\ calls[1].name = "get_weather"
    /\ results = <<ToolResult(FALSE, Chars("timeout"))>>
    /\ routed = Chars("Error from get_weather: timeout")

\* the braces after the first {"function" never come back to depth 0
NeverBalanced(s) ==
    LET idx == Find(s, Opener, 1)
    IN idx # 0 /\ \A j \in idx..Len(s) : Depth(s, idx, j) # 0

\* o is what some substring "{...}" of s parses to
ParsedFrom(s, o) ==
    \E i \in {x \in 1..Len(s) : s[x] = "{"} :
        \E j \in {y \in i..Len(s) : s[y] = "}"} :
            LET r == json_loads(SubSeq(s, i, j)) IN r.ok /\ r.val = o

\* what every result of the extractor is: None, or an object with a
\* "function" member that is the parse of well-formed JSON in the text
IsResult(s, o) ==
    o = None \/ (o.t = "dict" /\ HasKey(o, Chars("function")) /\ ParsedFrom(s, o))

\* C7 as it is stated: the extractor is total; text whose braces never come
\* back to depth 0 gives None; a string that is valid JSON without a
\* "function" member, or no object, gives None.
C7_AsStated ==
    pc = "extracted" =>
        LET s == Strip(llm_output)
            whole == json_loads(s)
        IN /\ IsResult(s, obj)
           /\ NeverBalanced(s) => obj = None
           /\ (whole.ok /\ ~IsCall(whole)) => obj = None

\* C7: the extractor is total: its result is None or an object with a
\* "function" member parsed from well-formed JSON in the text.  Text whose
\* braces never come back to depth 0 gives None unless the whole text, or a
\* fenced block, is a call.  Valid JSON that is no call is never returned
\* itself, and gives None unless a call is embedded in it.
C7_Total ==
    pc = "extracted" =>
        LET s == Strip(llm_output)
            whole == json_loads(s)
        IN /\ IsResult(s, obj)
           /\ (NeverBalanced(s) /\ ~IsCall(whole) /\ FencedCall(s, 1) = None)
                => obj = None
           /\ (whole.ok /\ ~IsCall(whole)) => obj # whole.val
           /\ (whole.ok /\ ~IsCall(whole) /\ ~Contains(s, Opener)) => obj = None

\* a text with an opener whose braces never close has given None
C7_Witness ==
    /\ pc = "extracted"
    /\ NeverBalanced(Strip(llm_output))
    /\ ~IsCall(json_loads(Strip(llm_output)))
    /\ obj = None

\* o with its "function" member set to the name
Renamed(o, name) ==
    JObj([i \in 1..Len(o.items) |->
            IF o.items[i].k = Chars("function")
            THEN Member(o.items[i].k, JStr(Chars(name))) ELSE o.items[i]])

\* the extracted call is named by an alias
NamedByAlias(o) ==
    LET f == DictGet(o, Chars("function"), JNull)
    IN o # None /\ f.t = "str" /\ f.s \in AliasNames

\* C8: a call named recent_papers, search_papers, find_papers or
\* arxiv_search with arguments A calls the same tool with the same argument,
\* and gives the same reply for the same tool result, as a call named
\* search_arxiv with arguments A.
C8_AliasEquivalence ==
    (pc \in {"routed", "done"} /\ NamedByAlias(obj)) =>
        \E net \in NetOutcomes :
            \E canon \in {RouteCall(Renamed(obj, "search_arxiv"), net)} :
                /\ ~canon.raised
                /\ routed = canon.reply
                /\ calls = canon.calls
                /\ results = canon.results

\* a call named recent_papers has reached search_arxiv
C8_Witness ==
    /\ pc = "routed"
    /\ DictGet(obj, Chars("function"), JNull) = S("recent_papers")
    /\ calls = <<Invocation("search_arxiv", S("llm"))>>
    /\ routed = Chars("sunny")

\* request r is inside a tool call made by a routing function
InTool(r) == rpc[r] \in {"route_tool", "rules_tool"}

\* C9: while one request is blocked inside a tool call made by
\* try_route_llm_function_call or maybe_call_by_rules, the event loop can
\* still resume every other request that is ready to go on.
C9_LoopStaysFree ==
    \A r, q \in Requests :
        (InTool(r) /\ q # r /\ rpc[q] \in Ready) => CanResume(q)

\* the balanced substring that starts at the first {"function" is no JSON
FirstChunkFails(s) ==
    LET idx == Find(s, Opener, 1)
        zeros == {z \in idx..Len(s) : s[z] = "}" /\ Depth(s, idx, z) = 0}
    IN /\ idx # 0
       /\ zeros # {}
       /\ ~json_loads(SubSeq(s, idx, CHOOSE z \in zeros : \A y \in zeros : z <= y)).ok

\* parts that are prose or one complete call, fenced or not
CompleteKinds == {"prose", "call_a", "call_c", "fenced_b", "fenced_d"}

\* index of the first fenced call among the parts (0: none)
FirstFenced(ps) ==
    LET fs == {i \in 1..Len(ps) : ps[i] \in {"fenced_b", "fenced_d"}}
    IN IF fs = {} THEN 0 ELSE CHOOSE i \in fs : \A j \in fs : i <= j

\* the whole text first, then the fenced blocks in their order, also when an
\* unfenced call stands before the first fenced one
StrategyOrder(s) ==
    LET whole == json_loads(s)
        ps == meta.parts
    IN /\ IsCall(whole) => obj = whole.val
       /\ (~IsCall(whole) /\ FencedCall(s, 1) # None) => obj = FencedCall(s, 1)
       /\ (meta.kind = "parts" /\ FirstFenced(ps) # 0
             /\ \A i \in 1..Len(ps) : ps[i] \in CompleteKinds)
            => obj = IF ps[FirstFenced(ps)] = "fenced_b" THEN CallB ELSE CallD

Busy == {w \in Workers : hpc[w] # "idle"}

\* C11: access to conv_manager.history is serialized: the read, append and
\* truncate steps of two generate_response executions on different worker
\* threads do not interleave, so once they have returned every exchange
\* that was appended is recorded (none is lost) and the buffer is the last
\* 10 pairs at most.
C11_Serialized ==
    /\ Cardinality(Busy) <= 1
    /\ Busy = {} => /\ history = LastN(appended, HistoryCap)
                    /\ Len(history) <= HistoryCap

\* C12: whatever string text_to_math_expr is given, it returns a string made
\* only of the characters 0-9 . + - * / % ( ), without whitespace, without
\* two or more identical '+', '-' or '/' in a row, and without "**+".
C12_NormalForm ==
    math_pc = "returned" =>
    /\ \A i \in 1..Len(math_s) :
          /\ math_s[i] \in DigitSet \cup SetOf(Chars(".+-*/%()"))
          /\ ~IsSpace(math_s[i])
    /\ \A i \in 1..(Len(math_s) - 1) :
          math_s[i] \in {"+", "-", "/"} => math_s[i + 1] # math_s[i]
    /\ ~Contains(math_s, Chars("**+"))

HasDigit(s) == \E i \in 1..Len(s) : s[i] \in DigitSet

\* C13: maybe_call_by_rules calls calculate only when the normalised
\* expression holds a digit; an utterance without digits is never sent to
\* calculate, and when it holds a weather keyword or an arXiv keyword it
\* reaches get_weather or search_arxiv, also when its text holds a hyphen,
\* a slash or one of the words "over" and "times".
C13_DigitOperand ==
    pc = "ruled" =>
        LET ql == Lower(Strip(user_text))
            weather == ContainsAny(ql, WeatherWords)
            arxiv == ContainsAny(ql, ArxivWords)
        IN /\ "calculate" \in RuleTools => HasDigit(calls[1].arg.s)
           /\ ~HasDigit(user_text) =>
                 /\ "calculate" \notin RuleTools
                 /\ weather => RuleTools = {"get_weather"}
                 /\ (~weather /\ arxiv) => RuleTools = {"search_arxiv"}

====
